---- MODULE Spec2Model ----
(***************************************************************************)
(* Model of the dynamic bitvector of src/src/bitvector.cpp (struct bt_impl *)
(* and its subtree_ref classes) over the packed views of                   *)
(* src/include/packed_view.h.                                              *)
(*                                                                         *)
(* The three packed arrays sizes, ranks and pointers are functions from a  *)
(* field index to the field's value; the leaves are integers below         *)
(* 2^leaf_bits, bit i of the leaf being (leaf \div 2^i) % 2.               *)
(*                                                                         *)
(* A failed assert() ends the run: the debug build aborts                  *)
(* ("AssertionFailure"), the release build goes on with undefined          *)
(* behaviour ("Undefined"); the model takes either outcome and stops.      *)
(* std::out_of_range is the outcome "IndexOutOfRange", after which the     *)
(* vector is still usable.                                                 *)
(***************************************************************************)
EXTENDS Integers, Sequences, FiniteSets, TLC

\* Bits per leaf: leaf_t is uint64_t in the source; the model scales the
\* leaf down so that splits and the root promotion happen within MaxSize bits.
leaf_bits == 5

\* Inserts are explored while the vector holds fewer than MaxSize bits.
MaxSize == 14

\* The (capacity, node_width) pairs given to the constructor.
Configs ==
    { [capacity |-> 64,  node_width |-> 21],
      [capacity |-> 32,  node_width |-> 18],
      [capacity |-> 128, node_width |-> 40] }

VARIABLES par, bv, hist, last, pv, call

vars == <<par, bv, hist, last, pv, call>>

\* A bitview or packed_view under test on its own is pv, [c, width, st]: its
\* container, the width of its fields (0 for a bitview) and the outcome of the
\* last call; call is that call, with its arguments, the container before it
\* and what it read.  no_op is the value of call before any call.
no_op == [op |-> "none", a |-> 0, b |-> 0, c |-> 0, d |-> 0, v |-> 0,
          before |-> << >>, src |-> << >>, got |-> 0]

Min(a, b) == IF a < b THEN a ELSE b

Max(a, b) == IF a > b THEN a ELSE b

ceildiv(a, b) == (a + b - 1) \div b

\* ceil(log2(n)) for n >= 1
ceil_log2(n) == CHOOSE k \in 0..30 : 2^k >= n /\ (k = 0 \/ 2^(k - 1) < n)

\* ceil(sqrt(n))
ceil_sqrt(n) == CHOOSE k \in 0..n : k * k >= n /\ (k = 0 \/ (k - 1) * (k - 1) < n)

\* the for loop that lowers nodes_buffer until floor((degree+1)/b) >= b
RECURSIVE buffer_loop(_, _)
buffer_loop(d, b) == IF (d + 1) \div b < b THEN buffer_loop(d, b - 1) ELSE b

\* the do-while loop that sums the nodes of every level
RECURSIVE nodes_loop(_, _, _)
nodes_loop(level_count, minimum_degree, nodes_count) ==
    LET l == ceildiv(level_count, minimum_degree)
    IN  IF l > 1 THEN nodes_loop(l, minimum_degree, nodes_count + l)
        ELSE nodes_count + l

\* the integer division inside ceil(): the quotient is already truncated
leaves_count_of(N, W, b) == N \div ((b * (W - b)) \div (b + 1))

\* The parameters the constructor computes from N and W.
bt_params(N, W) ==
    LET cw == ceil_log2(N) + 1
        d  == W \div cw
        b  == buffer_loop(d, Max(ceil_sqrt(d), 1))
        lc == leaves_count_of(N, W, b)
        nc == nodes_loop(lc, b, 0)
    IN  [ capacity      |-> N,
          node_width    |-> W,
          counter_width |-> cw,
          degree        |-> d,
          nodes_buffer  |-> b,
          leaves_buffer |-> b,
          leaves_count  |-> lc,
          nodes_count   |-> nc,
          pointer_width |-> ceil_log2(Max(nc, lc + 1)) ]

capacity == par.capacity

counter_width == par.counter_width

pointer_width == par.pointer_width

degree == par.degree

leaves_buffer == par.leaves_buffer

nodes_buffer == par.nodes_buffer

\* sizes.size() / degree: the number of nodes of the arena
nodes_size == par.nodes_count

\* leaves.size(): the leaves of the arena and the unused leaf 0
leaves_size == par.leaves_count + 1

(***************************************************************************)
(* Words and packed views.                                                 *)
(***************************************************************************)
\* ensure_bitsize(value, n) asserts that value fits n bits
ensure_bitsize(value, n) == value >= 0 /\ value < 2^n

lowbits(value, n) == value % (2^n)

bit(word, index) == (word \div 2^index) % 2

RECURSIVE popcount(_)
popcount(word) == IF word <= 0 THEN 0 ELSE (word % 2) + popcount(word \div 2)

\* insert_bit(word, index, bit) on a word of leaf_bits bits
insert_bit(word, index, b) ==
    ( b * 2^index
      + (word \div 2^index) * 2^(index + 1)
      + lowbits(word, index) ) % (2^leaf_bits)

\* A range of fields is a word, field begin lowest.  The sum of that word
\* and of n in every field (the word field_mask() * n) is computed field by
\* field, the carry of a field going into the next one: the fields of the sum
\* cut to the length of the range.  A negative n stands for the value -n
\* wrapped to, so it subtracts, and the carry is then the borrow.
RECURSIVE add_fields(_, _, _, _, _, _)
add_fields(view, width, k, end, n, carry) ==
    IF k >= end THEN view
    ELSE add_fields([view EXCEPT ![k] = (view[k] + n + carry) % (2^width)],
                    width, k + 1, end, n, (view[k] + n + carry) \div (2^width))

\* the carry out of the last field of that sum
RECURSIVE carry_out(_, _, _, _, _, _)
carry_out(view, width, k, end, n, carry) ==
    IF k >= end THEN carry
    ELSE carry_out(view, width, k + 1, end, n,
                   (view[k] + n + carry) \div (2^width))

\* the view with the fields [begin, end) zeroed
zeroed(view, begin, end) ==
    [k \in DOMAIN view |-> IF k >= begin /\ k < end THEN 0 ELSE view[k]]

\* packed_view::set: the word field_mask() * pattern, cut to the length of
\* the range, fills the range
set(view, width, begin, end, pattern) ==
    add_fields(zeroed(view, begin, end), width, begin, end, pattern, 0)

\* packed_view::increment, for a range shorter than one word.  ensure_bitsize
\* accepts the sum of the range and of the cut word field_mask() * n when it
\* carries nothing more out of the range than field_mask() * n does alone.
increment_ok(view, width, begin, end, n) ==
    carry_out(view, width, begin, end, n, 0)
        = carry_out(zeroed(view, begin, end), width, begin, end, n, 0)

increment(view, width, begin, end, n) ==
    add_fields(view, width, begin, end, n, 0)

\* packed_view::decrement: increment by -n, which may overflow
decrement(view, width, begin, end, n) ==
    add_fields(view, width, begin, end, 0 - n, 0)

\* range_reference = range_reference: bitview::copy, which cuts the source to
\* the length of the destination and moves the bits as memmove does
copy(dest, dbegin, dend, src, sbegin, send) ==
    LET n == Min(send - sbegin, dend - dbegin)
    IN  [k \in DOMAIN dest |->
            IF k >= dbegin /\ k < dbegin + n THEN src[sbegin + (k - dbegin)]
            ELSE dest[k]]

(***************************************************************************)
(* The vector after construction.                                          *)
(***************************************************************************)
construct(p) ==
    [ size      |-> 0,
      rank      |-> 0,
      height    |-> 1,
      free_node |-> 1,
      free_leaf |-> 2,
      sizes     |-> [k \in 0..(p.nodes_count * p.degree - 1) |-> 0],
      ranks     |-> [k \in 0..(p.nodes_count * p.degree - 1) |-> 0],
      pointers  |-> [k \in 0..(p.nodes_count * (p.degree + 1) - 1) |->
                        IF k = 0 THEN 1 ELSE 0],
      leaves    |-> [k \in 0..p.leaves_count |-> 0],
      st        |-> "ok",
      why       |-> "" ]

Init ==
    /\ par \in { bt_params(c.capacity, c.node_width) : c \in Configs }
    /\ bv = construct(par)
    /\ hist = << >>
    /\ last = [op |-> "none", valid |-> TRUE, res |-> "ok"]
    /\ pv = [c |-> << >>, width |-> 0, st |-> "ok"]
    /\ call = no_op

(***************************************************************************)
(* subtree_ref: a node or leaf (index, height) with the size and rank of   *)
(* its subtree, as computed on the way down.                               *)
(***************************************************************************)
subtree_ref(index, height, size, rank) ==
    [index |-> index, height |-> height, size |-> size, rank |-> rank]

root(s) == subtree_ref(0, s.height, s.size, s.rank)

is_leaf(t) == t.height = 0

is_node(t) == t.height > 0

\* a < b between two size_t values; a negative integer stands for the value a
\* subtraction wrapped to, which is above every value that did not wrap
ULt(a, b) == IF (a < 0) = (b < 0) THEN a < b ELSE b < 0

\* is_root(): its two asserts, and the index it returns true for
is_root(s, t) ==
    /\ (t.index # 0 \/ t.height = s.height)
    /\ (t.height # s.height \/ t.index = 0)
    /\ t.index = 0

\* the asserts of the range accessors sizes(begin, end), ranks(begin, end)
\* (n = degree) and pointers(begin, end) (n = degree + 1)
range_ok(t, begin, end, n) ==
    /\ is_node(t)
    /\ (begin >= end \/ begin < n)
    /\ (begin >= end \/ end <= n)

\* first field of node t in sizes and ranks, and in pointers: the offset the
\* range accessors add
keys_base(t) == t.index * degree

pointers_base(t) == t.index * (degree + 1)

\* sizes(k), ranks(k), pointers(k): item k of the whole array, whatever the node
sizes_item(s, t, k) == s.sizes[k]

ranks_item(s, t, k) == s.ranks[k]

pointers_item(s, t, k) == s.pointers[k]

\* the number of fields [k, end) of a view whose flag bit, the highest of the
\* field, is set
RECURSIVE flags(_, _, _)
flags(view, k, end) ==
    IF k >= end THEN 0
    ELSE view[k] \div (2^(counter_width - 1)) + flags(view, k + 1, end)

\* a search that counts the size fields of the node up to index, index included
find_field_above(s, t, index) ==
    degree - flags(add_fields(s.sizes, counter_width, keys_base(t),
                              keys_base(t) + degree,
                              2^(counter_width - 1) - (index + 1), 0),
                   keys_base(t), keys_base(t) + degree)

\* sizes().find(index): the number of size fields of the node below index.
\* The word of the sizes with every flag bit set, less index in every field,
\* keeps the flag bit of the fields that are not below index.
find_field(s, t, index) ==
    degree - flags(add_fields(s.sizes, counter_width, keys_base(t),
                              keys_base(t) + degree,
                              2^(counter_width - 1) - index, 0),
                   keys_base(t), keys_base(t) + degree)

\* the rest of find_insert_point once the child is found
insert_point(s, t, index, chld) ==
    <<chld, IF chld > 0 THEN index - sizes_item(s, t, chld - 1) ELSE index>>

\* find_insert_point(index): <<child, new_index>>
find_insert_point(s, t, index) == insert_point(s, t, index, find_field(s, t, index))

nchildren(s, t) ==
    IF t.size = 0 THEN 0 ELSE find_field(s, t, t.size) + 1

is_full(s, t) ==
    IF is_leaf(t) THEN t.size = leaf_bits ELSE nchildren(s, t) = degree + 1

\* the asserts of child(k)
child_ok(s, t, k) ==
    is_node(t) /\ k <= degree /\ pointers_item(s, t, k) # 0

child(s, t, k) ==
    subtree_ref(
        pointers_item(s, t, k),
        t.height - 1,
        IF k = 0 THEN sizes_item(s, t, k)
        ELSE IF k = degree THEN t.size - sizes_item(s, t, k - 1)
        ELSE sizes_item(s, t, k) - sizes_item(s, t, k - 1),
        IF k = 0 THEN ranks_item(s, t, k)
        ELSE IF k = degree THEN t.rank - ranks_item(s, t, k - 1)
        ELSE ranks_item(s, t, k) - ranks_item(s, t, k - 1))

\* leaf(): the leaf must lie inside the leaves array
leaf_ok(s, t) == is_leaf(t) /\ t.index \in DOMAIN s.leaves

leaf(s, t) == s.leaves[t.index]

\* a node reference must lie inside the arena of nodes
node_ok(t) == is_node(t) /\ t.index >= 0 /\ t.index < nodes_size

\* find(index) after find_insert_point gave p: a child that ends at the index
\* is stepped over
find_step(s, t, p) ==
    IF p[2] = child(s, t, p[1]).size THEN <<p[1] + 1, 0>> ELSE p

(***************************************************************************)
(* access                                                                  *)
(***************************************************************************)
outcome(st, why, v) == [st |-> st, why |-> why, v |-> v]

\* a range check that lets index = t.size() through
access_past_the_end(t, index) == ULt(t.size, index)

\* the range check of access: index >= t.size() throws
access_out_of_range(t, index) == ~ULt(index, t.size)

RECURSIVE access(_, _, _)

\* access below a node, q being what find(index) returned
access_child(s, t, q) ==
    IF ~(q[1] < degree + 1) THEN outcome("abort", "find", 0)
    ELSE IF ~child_ok(s, t, q[1]) THEN outcome("abort", "child", 0)
    ELSE access(s, child(s, t, q[1]), q[2])

\* access in a node, p being what find_insert_point(index) returned
access_node(s, t, p) ==
    IF ~(node_ok(t) /\ child_ok(s, t, p[1])) THEN outcome("abort", "child", 0)
    ELSE access_child(s, t, find_step(s, t, p))

access(s, t, index) ==
    IF access_out_of_range(t, index) THEN outcome("throw", "", 0)
    ELSE IF is_leaf(t)
    THEN IF ~leaf_ok(s, t) THEN outcome("abort", "leaf", 0)
         ELSE IF ~(index < leaf_bits) THEN outcome("abort", "get_bitfield", 0)
         ELSE outcome("ok", "", bit(leaf(s, t), index))
    ELSE access_node(s, t, find_insert_point(s, t, index))

(***************************************************************************)
(* The steps of insert.  Each takes the vector and gives the vector after  *)
(* the step; a vector whose st is not "ok" has failed and is handed on     *)
(* unchanged.                                                              *)
(***************************************************************************)
abort(s, why) == [s EXCEPT !.st = "abort", !.why = why]

\* the assert of alloc_node and of alloc_leaf
alloc_node_ok(s) == s.free_node < nodes_size

alloc_leaf_ok(s) == s.free_leaf < leaves_size

\* an allocation that leaves free_leaf and free_node where they were
alloc_child_again(s, t, k) ==
    IF t.height = 1
    THEN IF ~alloc_leaf_ok(s) THEN abort(s, "alloc_leaf")
         ELSE [s EXCEPT !.pointers[k] = s.free_leaf]
    ELSE IF ~alloc_node_ok(s) THEN abort(s, "alloc_node")
         ELSE [s EXCEPT !.pointers[k] = s.free_node]

\* pointers(k) = alloc_leaf() or alloc_node(), by the height of the node
alloc_child(s, t, k) ==
    IF t.height = 1
    THEN IF ~alloc_leaf_ok(s) THEN abort(s, "alloc_leaf")
         ELSE [s EXCEPT !.pointers[k] = s.free_leaf, !.free_leaf = @ + 1]
    ELSE IF ~alloc_node_ok(s) THEN abort(s, "alloc_node")
         ELSE [s EXCEPT !.pointers[k] = s.free_node, !.free_node = @ + 1]

\* the keys and pointers from k on move one place up, then sizes(k - 1) and
\* ranks(k - 1) get their old values back
shift_children(s, t, k) ==
    LET kb == keys_base(t)
        pb == pointers_base(t)
    IN  [s EXCEPT
            !.sizes    = [copy(@, kb + k, kb + degree, @, kb + k - 1, kb + degree)
                             EXCEPT ![k - 1] = sizes_item(s, t, k - 1)],
            !.ranks    = [copy(@, kb + k, kb + degree, @, kb + k - 1, kb + degree)
                             EXCEPT ![k - 1] = ranks_item(s, t, k - 1)],
            !.pointers = copy(@, pb + k + 1, pb + degree + 1,
                              @, pb + k, pb + degree + 1)]

insert_child(s, t, k) ==
    IF s.st # "ok" THEN s
    ELSE IF ~(is_node(t) /\ k > 0 /\ k <= degree) THEN abort(s, "insert_child")
    ELSE alloc_child(IF k < degree THEN shift_children(s, t, k) ELSE s, t, k)

\* count(i) of find_adjacent_children: the free slots of child i
free_slots(s, t, i, leaves) ==
    IF pointers_item(s, t, i) = 0
    THEN (IF leaves THEN leaf_bits ELSE degree + 1)
    ELSE IF leaves THEN leaf_bits - child(s, t, i).size
    ELSE (degree + 1) - nchildren(s, child(s, t, i))

RECURSIVE sum_free_slots(_, _, _, _, _)
sum_free_slots(s, t, i, end, leaves) ==
    IF i >= end THEN 0
    ELSE free_slots(s, t, i, leaves) + sum_free_slots(s, t, i + 1, end, leaves)

RECURSIVE slide_window(_, _, _, _, _, _, _, _)

\* the end of one turn of the loop: the window [begin, end) with its
\* freeslots replaces the best one when it has more
keep_best(s, t, chld, leaves, begin, end, freeslots, best) ==
    slide_window(s, t, chld, leaves, begin, end, freeslots,
                 IF ULt(best[3], freeslots) THEN <<begin, end, freeslots>>
                 ELSE best)

\* the loop that slides the window: <<begin, end, maxfreeslots>> of the best
slide_window(s, t, chld, leaves, begin, end, freeslots, best) ==
    IF ~(begin < chld /\ end < degree + 1) THEN best
    ELSE keep_best(s, t, chld, leaves, begin + 1, end + 1,
                   freeslots - free_slots(s, t, begin, leaves)
                             + free_slots(s, t, end - 1, leaves),
                   best)

\* the first window and the search from it
first_window(s, t, chld, leaves, begin, end, freeslots) ==
    slide_window(s, t, chld, leaves, begin, end, freeslots,
                 <<begin, end, freeslots>>)

\* <<begin, end, total>> of the window found
window_total(best, slots) == <<best[1], best[2], slots - best[3]>>

adjacent_children(s, t, chld, leaves, buffer, max_count, begin) ==
    window_total(
        first_window(s, t, chld, leaves, begin, Min(begin + buffer, degree + 1),
                     sum_free_slots(s, t, begin, Min(begin + buffer, degree + 1),
                                    leaves)),
        max_count * buffer)

\* find_adjacent_children(t, child): <<begin, end, total>>
find_adjacent_children(s, t, chld) ==
    IF is_leaf(child(s, t, chld))
    THEN adjacent_children(s, t, chld, TRUE, leaves_buffer, leaf_bits,
            IF chld >= leaves_buffer THEN chld - leaves_buffer + 1 ELSE 0)
    ELSE adjacent_children(s, t, chld, FALSE, nodes_buffer, degree + 1,
            IF chld >= nodes_buffer THEN chld - nodes_buffer + 1 ELSE 0)

\* clear_children_counters once last_size, last_rank, prev_size and prev_rank
\* are read
clear_counters(s, t, begin, keys_end, last_size, last_rank, prev_size, prev_rank) ==
    IF ~(range_ok(t, begin, keys_end, degree)
         /\ range_ok(t, keys_end, degree, degree))
    THEN abort(s, "range")
    ELSE IF ~(ensure_bitsize(prev_size, counter_width)
              /\ ensure_bitsize(prev_rank, counter_width))
    THEN abort(s, "ensure_bitsize")
    ELSE [s EXCEPT
            !.sizes = decrement(
                set(@, counter_width, keys_base(t) + begin,
                    keys_base(t) + keys_end, prev_size),
                counter_width, keys_base(t) + keys_end, keys_base(t) + degree,
                last_size),
            !.ranks = decrement(
                set(@, counter_width, keys_base(t) + begin,
                    keys_base(t) + keys_end, prev_rank),
                counter_width, keys_base(t) + keys_end, keys_base(t) + degree,
                last_rank)]

clear_children_counters(s, t, begin, end) ==
    IF s.st # "ok" THEN s
    ELSE clear_counters(s, t, begin, Min(end, degree),
            IF end < degree THEN sizes_item(s, t, end - 1) ELSE s.size,
            IF end < degree THEN ranks_item(s, t, end - 1) ELSE s.rank,
            IF begin > 0 THEN sizes_item(s, t, begin - 1) ELSE 0,
            IF begin > 0 THEN ranks_item(s, t, begin - 1) ELSE 0)

\* t.sizes(chld, degree) += n; t.ranks(chld, degree) += r
add_counters(s, t, chld, n, r) ==
    IF s.st # "ok" THEN s
    ELSE IF ~range_ok(t, chld, degree, degree) THEN abort(s, "range")
    ELSE IF ~(increment_ok(s.sizes, counter_width, keys_base(t) + chld,
                           keys_base(t) + degree, n)
              /\ increment_ok(s.ranks, counter_width, keys_base(t) + chld,
                              keys_base(t) + degree, r))
    THEN abort(s, "ensure_bitsize")
    ELSE [s EXCEPT
            !.sizes = increment(@, counter_width, keys_base(t) + chld,
                                keys_base(t) + degree, n),
            !.ranks = increment(@, counter_width, keys_base(t) + chld,
                                keys_base(t) + degree, r)]

RECURSIVE gather_bits(_, _, _, _, _, _, _)

\* bits(p, p + size) = leaf for the child c, a leaf: the assignment of a word
\* to a range is packed_view::set, which asserts that the word fits one field
\* of the view (one bit) and writes it to every field of the range
gather_leaf(s, t, i, end, p, room, buf, c) ==
    IF ~(leaf_ok(s, c) /\ ensure_bitsize(leaf(s, c), 1)
         /\ c.size >= 0 /\ p + c.size <= room)
    THEN -1
    ELSE gather_bits(s, t, i + 1, end, p + c.size, room,
                     buf + leaf(s, c) * (2^(c.size) - 1) * 2^p)

\* The first loop of redistribute_bits, from child i on: the buffer as a word
\* (bit p of the buffer is bit p of the word), or -1 when an assert fails.
gather_bits(s, t, i, end, p, room, buf) ==
    IF i >= end THEN buf
    ELSE IF pointers_item(s, t, i) = 0
    THEN gather_bits(s, t, i + 1, end, p, room, buf)
    ELSE IF ~child_ok(s, t, i) THEN -1
    ELSE gather_leaf(s, t, i, end, p, room, buf, child(s, t, i))

\* t.child(i).leaf() = leaf; t.sizes(i, degree) += n;
\* t.ranks(i, degree) += popcount(leaf)
put_leaf(s, t, i, n, lf) ==
    add_counters([s EXCEPT !.leaves[child(s, t, i).index] = lf], t, i,
                 n, popcount(lf))

RECURSIVE spread_bits(_, _, _, _, _, _, _, _)

\* one turn of the second loop once child i exists: n bits from bit p of the
\* buffer go to it
spread_leaf(s, t, i, end, p, bits_per_leaf, rem, buf, n) ==
    IF s.st # "ok" THEN s
    ELSE IF ~(child_ok(s, t, i) /\ leaf_ok(s, child(s, t, i)))
    THEN abort(s, "child")
    ELSE spread_bits(put_leaf(s, t, i, n, lowbits(buf \div 2^p, n)),
                     t, i + 1, end, p + n, bits_per_leaf,
                     IF rem > 0 THEN rem - 1 ELSE 0, buf)

\* The second loop of redistribute_bits, from child i on, rem children still
\* getting one bit more.
spread_bits(s, t, i, end, p, bits_per_leaf, rem, buf) ==
    IF s.st # "ok" \/ i >= end THEN s
    ELSE spread_leaf(
            IF pointers_item(s, t, i) = 0 THEN insert_child(s, t, i) ELSE s,
            t, i, end, p, bits_per_leaf, rem, buf,
            IF rem > 0 THEN bits_per_leaf + 1 ELSE bits_per_leaf)

\* redistribute_bits after its first loop filled the buffer
scatter_bits(s, t, begin, end, count, buf) ==
    IF buf < 0 THEN abort(s, "ensure_bitsize")
    ELSE spread_bits(clear_children_counters(s, t, begin, end), t, begin, end,
                     0, count \div (end - begin), count % (end - begin), buf)

redistribute_bits(s, t, begin, end, count) ==
    IF s.st # "ok" THEN s
    ELSE IF ~(end - begin = leaves_buffer \/ end - begin = leaves_buffer + 1)
    THEN abort(s, "redistribute_bits")
    ELSE scatter_bits(s, t, begin, end, count,
            gather_bits(s, t, begin, end, 0, 64 * ceildiv(count, 64), 0))

\* the assert after redistribute_bits: the vector is small or every child of
\* the window holds at least b(leaf_bits - b)/(b + 1) bits
RECURSIVE in_shape(_, _, _, _)
in_shape(s, t, k, end) ==
    k >= end
    \/ /\ \/ s.size < leaves_buffer * (leaf_bits - leaves_buffer)
          \/ /\ child_ok(s, t, k)
             /\ ~ULt(child(s, t, k).size,
                     (leaves_buffer * (leaf_bits - leaves_buffer))
                        \div (leaves_buffer + 1))
       /\ in_shape(s, t, k + 1, end)

stay_in_shape(s, t, begin, end) ==
    IF s.st # "ok" THEN s
    ELSE IF ~in_shape(s, t, begin, end) THEN abort(s, "in_shape")
    ELSE s

\* insert, height 1, step 1 once the window w = <<begin, end, count>> is
\* found: a new leaf when the window holds too many bits, the redistribution,
\* the assert
split_leaves(s, t, chld, w) ==
    IF ~(w[1] <= chld /\ chld < w[2]) THEN abort(s, "find_adjacent_children")
    ELSE IF w[3] >= leaves_buffer * (leaf_bits - leaves_buffer)
    THEN stay_in_shape(
            redistribute_bits(insert_child(s, t, w[2]), t, w[1], w[2] + 1, w[3]),
            t, w[1], w[2] + 1)
    ELSE stay_in_shape(redistribute_bits(s, t, w[1], w[2], w[3]), t, w[1], w[2])

rebalance_leaves(s, t, chld) ==
    split_leaves(s, t, chld, find_adjacent_children(s, t, chld))

\* insert, height 1, step 3: the bit goes into the leaf at p = <<child, index>>
put_bit(s, t, p, b) ==
    IF s.st # "ok" THEN s
    ELSE IF ~(child_ok(s, t, p[1]) /\ leaf_ok(s, child(s, t, p[1])))
    THEN abort(s, "child")
    ELSE IF ~(p[2] >= 0 /\ p[2] < leaf_bits) THEN abort(s, "get_bitfield")
    ELSE [s EXCEPT !.leaves[child(s, t, p[1]).index] = insert_bit(@, p[2], b)]

\* insert, height 1, step 2: size, rank and the counters from the child on
count_bit(s, t, p, b) ==
    put_bit(add_counters([s EXCEPT !.size = @ + 1, !.rank = @ + b],
                         t, p[1], 1, b),
            t, p, b)

insert_into_leaf(s, t, index, b) ==
    IF s.st # "ok" THEN s
    ELSE count_bit(s, t, find_insert_point(s, t, index), b)

\* the branch of insert for a node of height 1, chld being the child found
leaf_level(s, t, index, b, chld) ==
    IF ~child_ok(s, t, chld) THEN abort(s, "child")
    ELSE insert_into_leaf(
            IF is_full(s, child(s, t, chld)) THEN rebalance_leaves(s, t, chld)
            ELSE s,
            t, index, b)

insert_at_leaves(s, t, index, b) ==
    leaf_level(s, t, index, b, find_insert_point(s, t, index)[1])

RECURSIVE gather_keys(_, _, _, _, _, _)

\* the keys of node n, child i of t, from its child c on
gather_node(s, t, i, end, c, keys, n) ==
    IF ~node_ok(n) THEN <<0>>
    ELSE IF ~(c < nchildren(s, n)) THEN gather_keys(s, t, i + 1, end, 0, keys)
    ELSE IF ~child_ok(s, n, c) THEN <<0>>
    ELSE gather_keys(s, t, i, end, c + 1,
            Append(keys, [ size |-> child(s, n, c).size,
                           rank |-> child(s, n, c).rank,
                           ptr  |-> pointers_item(s, n, c) ]))

\* The first loop of redistribute_keys: the (size, rank, ptr) of every child
\* of every node of the window, in order; <<0>> when an assert fails.
gather_keys(s, t, i, end, c, keys) ==
    IF i >= end THEN keys
    ELSE IF pointers_item(s, t, i) = 0 THEN gather_keys(s, t, i + 1, end, 0, keys)
    ELSE IF ~child_ok(s, t, i) THEN <<0>>
    ELSE gather_node(s, t, i, end, c, keys, child(s, t, i))

\* t.child(i).sizes() = 0, ranks() = 0, pointers() = 0
clear_node(s, n) ==
    [s EXCEPT
        !.sizes    = set(@, counter_width, keys_base(n), keys_base(n) + degree, 0),
        !.ranks    = set(@, counter_width, keys_base(n), keys_base(n) + degree, 0),
        !.pointers = set(@, pointer_width, pointers_base(n),
                         pointers_base(n) + degree + 1, 0)]

\* t.child(i).pointers(j) = ptr; t.child(i).sizes(j, degree) += size;
\* t.child(i).ranks(j, degree) += rank
put_key(s, n, j, key) ==
    IF ~ensure_bitsize(key.ptr, pointer_width) THEN abort(s, "ensure_bitsize")
    ELSE add_counters([s EXCEPT !.pointers[j] = key.ptr], n, j, key.size, key.rank)

\* The inner loop of redistribute_keys: keys p + j .. p + cnt - 1 go to node
\* n.  Gives the vector with the size and the rank handed over.
RECURSIVE fill_node(_, _, _, _, _, _, _, _)
fill_node(s, n, j, cnt, keys, p, childsize, childrank) ==
    IF s.st # "ok" \/ j >= cnt
    THEN [s |-> s, size |-> childsize, rank |-> childrank]
    ELSE IF p + j + 1 > Len(keys)
    THEN [s |-> abort(s, "vector"), size |-> childsize, rank |-> childrank]
    ELSE fill_node(put_key(s, n, j, keys[p + j + 1]), n, j + 1, cnt, keys, p,
                   childsize + keys[p + j + 1].size,
                   childrank + keys[p + j + 1].rank)

RECURSIVE spread_keys(_, _, _, _, _, _, _, _)

\* the end of one turn of the second loop: the counters of t from child i on
\* grow by what node i received
spread_next(f, t, i, end, p, keys_per_node, rem, keys) ==
    spread_keys(add_counters(f.s, t, i, f.size, f.rank), t, i + 1, end, p,
                keys_per_node, IF rem > 0 THEN rem - 1 ELSE 0, keys)

\* one turn of the second loop once child i exists: cnt keys from key p on
spread_node(s, t, i, end, p, keys_per_node, rem, keys, cnt) ==
    IF s.st # "ok" THEN s
    ELSE IF ~(child_ok(s, t, i) /\ node_ok(child(s, t, i))) THEN abort(s, "child")
    ELSE spread_next(
            fill_node(clear_node(s, child(s, t, i)), child(s, t, i), 0, cnt,
                      keys, p, 0, 0),
            t, i, end, p + cnt, keys_per_node, rem, keys)

\* The second loop of redistribute_keys, from child i on.
spread_keys(s, t, i, end, p, keys_per_node, rem, keys) ==
    IF s.st # "ok" \/ i >= end THEN s
    ELSE spread_node(
            IF pointers_item(s, t, i) = 0 THEN insert_child(s, t, i) ELSE s,
            t, i, end, p, keys_per_node, rem, keys,
            IF rem > 0 THEN keys_per_node + 1 ELSE keys_per_node)

\* redistribute_keys after its first loop collected the keys
scatter_keys(s, t, begin, end, count, keys) ==
    IF keys = <<0>> THEN abort(s, "child")
    ELSE spread_keys(clear_children_counters(s, t, begin, end), t, begin, end,
                     0, count \div (end - begin), count % (end - begin), keys)

redistribute_keys(s, t, begin, end, count) ==
    IF s.st # "ok" THEN s
    ELSE IF ~(end - begin = nodes_buffer \/ end - begin = nodes_buffer + 1)
    THEN abort(s, "redistribute_keys")
    ELSE scatter_keys(s, t, begin, end, count,
                      gather_keys(s, t, begin, end, 0, << >>))

\* insert, height above 1, step 1 once the window is found
split_nodes(s, t, chld, w) ==
    IF ~(w[1] <= chld /\ chld < w[2]) THEN abort(s, "find_adjacent_children")
    ELSE IF w[3] \div (nodes_buffer + 1) >= nodes_buffer
    THEN redistribute_keys(insert_child(s, t, w[2]), t, w[1], w[2] + 1, w[3])
    ELSE redistribute_keys(s, t, w[1], w[2], w[3])

rebalance_nodes(s, t, chld) ==
    split_nodes(s, t, chld, find_adjacent_children(s, t, chld))

\* subtree_ref::copy() of a node: the node r is allocated and gets the keys
\* and pointers of t
copy_node(s, t, r) ==
    [s EXCEPT
        !.free_node = @ + 1,
        !.sizes     = copy(@, r * degree, r * degree + degree,
                           @, keys_base(t), keys_base(t) + degree),
        !.ranks     = copy(@, r * degree, r * degree + degree,
                           @, keys_base(t), keys_base(t) + degree),
        !.pointers  = copy(@, r * (degree + 1), r * (degree + 1) + degree + 1,
                           @, pointers_base(t), pointers_base(t) + degree + 1)]

\* a root emptied without the height growing
empty_root_same_height(s, t, old_root) ==
    [s EXCEPT
        !.sizes    = set(@, counter_width, keys_base(t), keys_base(t) + degree,
                         t.size),
        !.ranks    = set(@, counter_width, keys_base(t), keys_base(t) + degree,
                         t.rank),
        !.pointers = [set(@, pointer_width, pointers_base(t),
                          pointers_base(t) + degree + 1, 0)
                         EXCEPT ![0] = old_root]]

\* the root is emptied and made the parent of old_root; the height grows
empty_root(s, t, old_root) ==
    [s EXCEPT
        !.sizes    = set(@, counter_width, keys_base(t), keys_base(t) + degree,
                         t.size),
        !.ranks    = set(@, counter_width, keys_base(t), keys_base(t) + degree,
                         t.rank),
        !.pointers = [set(@, pointer_width, pointers_base(t),
                          pointers_base(t) + degree + 1, 0)
                         EXCEPT ![0] = old_root],
        !.height   = @ + 1]

\* the two asserts on the new root
promoted(s) ==
    IF ~(nchildren(s, root(s)) = 1
         /\ child_ok(s, root(s), 0)
         /\ is_full(s, child(s, root(s), 0)))
    THEN abort(s, "promote")
    ELSE s

\* The start of insert on a full node t: it must be the root, which is copied
\* to a new node and becomes the parent of the copy.
promote(s, t) ==
    IF ~is_root(s, t) THEN abort(s, "is_root")
    ELSE IF ~alloc_node_ok(s) THEN abort(s, "alloc_node")
    ELSE IF ~(ensure_bitsize(t.size, counter_width)
              /\ ensure_bitsize(t.rank, counter_width)
              /\ ensure_bitsize(s.free_node, pointer_width))
    THEN abort(s, "ensure_bitsize")
    ELSE promoted(empty_root(copy_node(s, t, s.free_node), t, s.free_node))

\* the range check of insert: index > t.size() throws
insert_out_of_range(t, index) == ULt(t.size, index)

RECURSIVE insert(_, _, _, _)

\* insert, height above 1, step 3: the counters of the child p = <<child,
\* index>> grow and the insert goes on below
descend(s, t, b, p) ==
    IF ~child_ok(s, t, p[1]) THEN abort(s, "child")
    ELSE insert(add_counters(s, t, p[1], 1, b), child(s, t, p[1]), p[2], b)

insert_into_node(s, t, index, b) ==
    IF s.st # "ok" THEN s
    ELSE descend(s, t, b, find_insert_point(s, t, index))

\* the branch of insert for a node of height above 1
node_level(s, t, index, b, chld) ==
    IF ~child_ok(s, t, chld) THEN abort(s, "child")
    ELSE insert_into_node(
            IF is_full(s, child(s, t, chld)) THEN rebalance_nodes(s, t, chld)
            ELSE s,
            t, index, b)

insert_at_nodes(s, t, index, b) ==
    node_level(s, t, index, b, find_insert_point(s, t, index)[1])

\* return insert(root(), index, bit)
insert_from_root(s, index, b) == insert(s, root(s), index, b)

insert(s, t, index, b) ==
    IF s.st # "ok" THEN s
    ELSE IF insert_out_of_range(t, index) THEN [s EXCEPT !.st = "throw"]
    ELSE IF ~node_ok(t) THEN abort(s, "is_node")
    ELSE IF is_full(s, t) THEN insert_from_root(promote(s, t), index, b)
    ELSE IF t.height = 1 THEN insert_at_leaves(s, t, index, b)
    ELSE insert_at_nodes(s, t, index, b)

(***************************************************************************)
(* The operations of bitvector.                                            *)
(***************************************************************************)
\* what the caller of an operation sees
Result(o) ==
    CASE o.st = "ok"    -> {"ok"}
      [] o.st = "throw" -> {"IndexOutOfRange"}
      [] OTHER          -> {"AssertionFailure", "Undefined"}

Running == bv.st = "ok"

\* the reference sequence after insert(i, b)
InsertAt(seq, i, b) ==
    [k \in 1..(Len(seq) + 1) |->
        IF k <= i THEN seq[k] ELSE IF k = i + 1 THEN b ELSE seq[k - 1]]

\* insert(i, b) ended with the vector s
Inserted(i, b, s) ==
    \E r \in Result(s) :
        /\ bv' = [s EXCEPT !.st = IF s.st = "abort" THEN r ELSE "ok"]
        /\ hist' = IF r = "ok" THEN InsertAt(hist, i, b) ELSE hist
        /\ last' = [op |-> "insert", valid |-> i <= bv.size, res |-> r]

Insert(i, b) ==
    /\ Running
    /\ bv.size < MaxSize
    /\ Inserted(i, b, insert(bv, root(bv), i, IF b THEN 1 ELSE 0))
    /\ UNCHANGED <<par, pv, call>>

\* access(i) ended with the outcome o
Accessed(i, o) ==
    \E r \in Result(o) :
        /\ bv' = IF o.st = "abort" THEN [bv EXCEPT !.st = r, !.why = o.why]
                 ELSE bv
        /\ last' = [ op    |-> "access",
                     valid |-> i < bv.size,
                     res   |-> IF r = "ok"
                               THEN (IF o.v = 1 THEN "true" ELSE "false")
                               ELSE r ]

Access(i) ==
    /\ Running
    /\ Accessed(i, access(bv, root(bv), i))
    /\ UNCHANGED <<par, hist, pv, call>>

\* The positions tried on a vector of n bits: the front, two thirds of the way
\* and the end (for access the end is the first position out of range).
Positions(n) == {0, (2 * n) \div 3, n}

InsertStep ==
    \E i \in Positions(bv.size) \cup {bv.size + 1}, b \in BOOLEAN : Insert(i, b)

AccessStep == \E i \in Positions(bv.size) : Access(i)

Next == InsertStep \/ AccessStep

Spec == Init /\ [][Next]_vars

\* A vector whose nodes are wide enough for a buffer of 3, bitvector(512, 80),
\* or one small enough to be filled to its capacity, bitvector(4, 9), with up
\* to WideSize bits.
WideSize == 10

WideInit ==
    /\ par \in {bt_params(512, 80), bt_params(4, 9)}
    /\ bv = construct(par)
    /\ hist = << >>
    /\ last = [op |-> "none", valid |-> TRUE, res |-> "ok"]
    /\ pv = [c |-> << >>, width |-> 0, st |-> "ok"]
    /\ call = no_op

WideInsertStep == bv.size < WideSize /\ InsertStep

WideNext == WideInsertStep \/ AccessStep

WideSpec == WideInit /\ [][WideNext]_vars

(***************************************************************************)
(* bitview and packed_view on their own (src/include/bitview.h,            *)
(* src/include/packed_view.h).  A container is a function from a word      *)
(* index to a word, an integer below 2^W; bit i of the view is bit i % W   *)
(* of word i \div W.  A view v is [c, width, st]: the container, the width *)
(* of a field, and "ok" or the way the last call went wrong.               *)
(***************************************************************************)
\* Bits per word: word_type is uint64_t in the source; the model scales the
\* word down so that every range of a view of Words words can be tried.
W == 8

\* Words of the container of the view.
Words == 3

view_size == Words * W

\* x << s and x >> s on a word, s < W
shl(x, s) == (x * 2^s) % (2^W)

shr(x, s) == x \div 2^s

RECURSIVE bit_or(_, _)
bit_or(x, y) ==
    IF x = 0 THEN y
    ELSE IF y = 0 THEN x
    ELSE (IF x % 2 = 1 \/ y % 2 = 1 THEN 1 ELSE 0)
         + 2 * bit_or(x \div 2, y \div 2)

RECURSIVE bit_and(_, _)
bit_and(x, y) ==
    IF x = 0 \/ y = 0 THEN 0
    ELSE (x % 2) * (y % 2) + 2 * bit_and(x \div 2, y \div 2)

\* the word with the bits [begin, end) set
ones(begin, end) ==
    IF begin = end THEN 0 ELSE shl(shr(2^W - 1, W - end + begin), begin)

zeroes(begin, end) == bit_or(ones(0, begin), ones(end, W))

get_bitfield(word, begin, end) == shr(bit_and(word, ones(begin, end)), begin)

\* a set_bitfield that keeps only the bits of the word below begin
set_bitfield_low(word, begin, end, value) ==
    bit_or(bit_and(word, ones(0, begin)), shl(value, begin))

\* the word with value in its bits [begin, end)
set_bitfield(word, begin, end, value) ==
    bit_or(bit_and(word, zeroes(begin, end)),
           bit_and(shl(value, begin), (2^W - 1) - zeroes(begin, end)))

\* the n highest bits of a word, in place
highbits(val, n) == bit_and(val, ones(W - n, W))

\* check_valid_range(begin, end, size) asserts a range inside the view
check_valid_range(begin, end, size) == begin < end /\ end <= size

locate(begin, end) ==
    [ index  |-> begin \div W,
      lbegin |-> begin % W,
      llen   |-> Min(W - (begin % W), end - begin),
      hlen   |-> (end - begin) - Min(W - (begin % W), end - begin) ]

\* a get that reads the word of begin alone
get_one_word(c, begin, end) ==
    shr(c[begin \div W], begin % W) % (2^(end - begin))

\* bitview::get(begin, end): the word of the last bit of the range with the
\* bits from end on shifted out, alone when the range lies in one word, else
\* joined to the word of the first bit
bitview_get(c, begin, end) ==
    LET lo_index == begin \div W
        hi_index == (end - (IF end > 0 THEN 1 ELSE 0)) \div W
        hi_shift == (W - (end % W)) % W
        hi_val   == shr(shl(c[hi_index], hi_shift), hi_shift)
        lo_shift == begin % W
    IN  IF hi_index <= lo_index
        THEN shr(hi_val, lo_shift) * (IF begin < end THEN 1 ELSE 0)
        ELSE bit_or(shl(hi_val, W - lo_shift), shr(c[lo_index], lo_shift))

\* bitview::get(index)
bitview_bit(c, index) ==
    IF bit_and(c[index \div W], shl(1, index % W)) # 0 THEN 1 ELSE 0

\* bitview::set(begin, end, value): the low part of the value in the word of
\* begin and the high part in the next word
bitview_set(v, begin, end, value) ==
    LET loc  == locate(begin, end)
        low  == [v.c EXCEPT ![loc.index] =
                    set_bitfield(@, loc.lbegin, loc.lbegin + loc.llen, value)]
        bits == get_bitfield(value, loc.llen, loc.llen + loc.hlen)
    IN  IF v.st # "ok" \/ begin >= end THEN v
        ELSE IF ~( /\ end - begin <= W
                   /\ check_valid_range(begin, end, view_size)
                   /\ ensure_bitsize(value, end - begin) )
        THEN [v EXCEPT !.st = "abort"]
        ELSE IF loc.hlen # 0
        THEN [v EXCEPT !.c = [low EXCEPT ![loc.index + 1] =
                                  set_bitfield(@, 0, loc.hlen, bits)]]
        ELSE [v EXCEPT !.c = low]

\* The container a copy reads: the destination itself, as it is by then, when
\* the source is the same view.
source(c, src, same) == IF same THEN c ELSE src

\* copy_forward, the loop over the whole words of the destination
RECURSIVE forward_words(_, _, _, _, _, _)
forward_words(c, src, same, i, dest_end_index, src_pos) ==
    IF i >= dest_end_index THEN [c |-> c, src_pos |-> src_pos]
    ELSE forward_words(
            [c EXCEPT ![i] = bitview_get(source(c, src, same), src_pos, src_pos + W)],
            src, same, i + 1, dest_end_index, src_pos + W)

\* copy_forward on the view v.  Its first statement reads and writes the word
\* of dest_begin, which lies past the container when dest_begin is the size of
\* the view: the outcome "past the end", with the container as it is when that
\* word is read and written back.
copy_forward(v, src, same, src_begin, src_end, dest_begin, dest_end) ==
    LET dest_begin_index == dest_begin \div W
        dest_begin_pos   == dest_begin % W
        dest_end_index   == dest_end \div W
        dest_end_pos     == dest_end % W
        highpart == IF dest_begin_index = dest_end_index
                    THEN W - dest_end_pos ELSE 0
        len      == (W - dest_begin_pos) - highpart
        first    == [v.c EXCEPT ![dest_begin_index] =
                        bit_or(bit_or(shl(bitview_get(source(v.c, src, same),
                                                      src_begin, src_begin + len),
                                          dest_begin_pos),
                                      lowbits(@, dest_begin_pos)),
                               highbits(@, highpart))]
        words    == forward_words(first, src, same, dest_begin_index + 1,
                                  dest_end_index, src_begin + len)
        last_len == src_end - words.src_pos
    IN  IF src_end - src_begin # dest_end - dest_begin
        THEN [v EXCEPT !.st = "abort"]
        ELSE IF dest_begin_index >= Words
        THEN [v EXCEPT !.st = "past the end"]
        ELSE IF last_len > 0
        THEN [v EXCEPT !.c = [words.c EXCEPT ![dest_end_index] =
                bit_or(bitview_get(source(words.c, src, same),
                                   words.src_pos, words.src_pos + last_len),
                       highbits(@, W - last_len))]]
        ELSE [v EXCEPT !.c = words.c]

\* copy_backward, the loop over the whole words of the destination, downwards
RECURSIVE backward_words(_, _, _, _, _, _)
backward_words(c, src, same, dest_begin, dest_pos, src_pos) ==
    IF dest_pos - dest_begin < W THEN [c |-> c, src_pos |-> src_pos]
    ELSE backward_words(
            [c EXCEPT ![(dest_pos - W) \div W] =
                bitview_get(source(c, src, same), src_pos - W, src_pos)],
            src, same, dest_begin, dest_pos - W, src_pos - W)

\* copy_backward on the view v.  Its first statement reads and writes the word
\* of dest_end, which lies past the container when dest_end is the size of the
\* view: the outcome "past the end", with the container as it is when that word
\* is read and written back.
copy_backward(v, src, same, src_begin, src_end, dest_begin, dest_end) ==
    LET dest_begin_index == dest_begin \div W
        dest_begin_pos   == dest_begin % W
        dest_end_index   == dest_end \div W
        dest_end_pos     == dest_end % W
        lowpart  == IF dest_begin_index = dest_end_index
                    THEN dest_begin_pos ELSE 0
        lastpart == dest_end_pos - lowpart
        upper    == IF dest_end_index >= Words THEN v.c
                    ELSE [v.c EXCEPT ![dest_end_index] =
                        bit_or(bit_or(highbits(@, W - dest_end_pos),
                                      shl(bitview_get(source(v.c, src, same),
                                                      src_end - lastpart, src_end),
                                          lowpart)),
                               lowbits(@, lowpart))]
        words    == backward_words(upper, src, same, dest_begin,
                                   dest_end - lastpart, src_end - lastpart)
        firstpart == words.src_pos - src_begin
        done     == IF firstpart > 0
                    THEN [words.c EXCEPT ![dest_begin_index] =
                            bit_or(lowbits(@, dest_begin_pos),
                                   shl(bitview_get(source(words.c, src, same),
                                                   src_begin, words.src_pos),
                                       dest_begin_pos))]
                    ELSE words.c
    IN  IF src_end - src_begin # dest_end - dest_begin
        THEN [v EXCEPT !.st = "abort"]
        ELSE [v EXCEPT !.c  = done,
                       !.st = IF dest_end_index >= Words THEN "past the end" ELSE @]

\* bitview::copy from a bitview: the source cut to the length of the
\* destination, backwards when it is this view and begins below the destination
bitview_copy(v, src, same, src_begin, src_end, dest_begin, dest_end) ==
    LET srclen == Min(src_end - src_begin, dest_end - dest_begin)
    IN  IF same /\ src_begin < dest_begin
        THEN copy_backward(v, src, same, src_begin, src_begin + srclen,
                           dest_begin, dest_begin + srclen)
        ELSE copy_forward(v, src, same, src_begin, src_begin + srclen,
                          dest_begin, dest_begin + srclen)

\* bitview::insert(begin, end, value) once its copy, the bits from begin on
\* moved up to end, has given the view cp: the value is set in the gap
bitview_insert_range(cp, begin, end, value) ==
    IF ~check_valid_range(begin, end, view_size) THEN [cp EXCEPT !.st = "abort"]
    ELSE bitview_set(cp, begin, end, value)

\* bitview::insert(index, bit), the words above the one of index
RECURSIVE insert_carry(_, _, _)
insert_carry(c, j, carry) ==
    IF j >= Words THEN c
    ELSE insert_carry([c EXCEPT ![j] = bit_or(shl(@, 1), carry)],
                      j + 1, shr(c[j], W - 1))

\* an insert that shifts the word of index alone
insert_in_word(c, index, b) ==
    [c EXCEPT ![index \div W] =
        bit_or(bit_or(shl(shr(@, index % W), (index % W) + 1),
                      lowbits(@, index % W)),
               shl(b, index % W))]

\* bitview::insert(index, bit)
bitview_insert(c, index, b) ==
    LET i    == index \div W
        pos  == index % W
        word == c[i]
        mask == shl(2^W - 1, pos)
    IN  insert_carry(
            [c EXCEPT ![i] =
                bit_or(bit_or(shl(bit_and(word, mask), 1),
                              bit_and(word, (2^W - 1) - mask)),
                       shl(b, pos))],
            i + 1, shr(word, W - 1))

\* packed_view::compute_field_mask: the word with the lowest bit of each of
\* its i fields set
RECURSIVE compute_field_mask(_, _)
compute_field_mask(width, i) ==
    IF i = 0 THEN 0
    ELSE bit_or(shl(compute_field_mask(width, i - 1), width), 1)

\* packed_view::get(index)
packed_get(c, width, index) == bitview_get(c, index * width, (index + 1) * width)

\* packed_view::set(begin, end, pattern), the loop: value is the pattern in
\* every field of a word, written in steps of the whole fields of a word
RECURSIVE set_chunks(_, _, _, _, _, _)
set_chunks(v, p, stop, len, rem, value) ==
    LET bits_per_word == (W \div v.width) * v.width
        step == IF len < bits_per_word THEN rem ELSE bits_per_word
    IN  IF p >= stop \/ v.st # "ok" THEN v
        ELSE set_chunks(bitview_set(v, p, p + step, lowbits(value, step)),
                        p + step, stop, len - step, rem, value)

\* a set that assigns the pattern to the first field of the range alone
set_first_field(v, begin, end, pattern) ==
    bitview_set(v, begin * v.width,
                IF begin < end THEN (begin + 1) * v.width ELSE begin * v.width,
                pattern)

packed_set(v, begin, end, pattern) ==
    IF ~ensure_bitsize(pattern, v.width) THEN [v EXCEPT !.st = "abort"]
    ELSE set_chunks(v, begin * v.width, end * v.width, (end - begin) * v.width,
                    ((end - begin) * v.width) % ((W \div v.width) * v.width),
                    (compute_field_mask(v.width, W \div v.width) * pattern) % (2^W))

\* packed_view::increment(begin, end, n, opt), the loop: n, a word, is added
\* to the fields of a step at once
RECURSIVE increment_chunks(_, _, _, _, _, _, _)
increment_chunks(v, p, stop, len, rem, n, opt) ==
    LET bits_per_word == (W \div v.width) * v.width
        step   == IF len < bits_per_word THEN rem ELSE bits_per_word
        result == (bitview_get(v.c, p, p + step)
                   + lowbits((compute_field_mask(v.width, W \div v.width) * n) % (2^W),
                             step)) % (2^W)
    IN  IF p >= stop \/ v.st # "ok" THEN v
        ELSE IF opt = "cant_overflow" /\ ~ensure_bitsize(result, step)
        THEN [v EXCEPT !.st = "abort"]
        ELSE increment_chunks(bitview_set(v, p, p + step, lowbits(result, step)),
                              p + step, stop, len - step, rem, n, opt)

\* an increment that adds n to the first field of the range alone
increment_first_field(v, begin, end, n) ==
    bitview_set(v, begin * v.width,
                IF begin < end THEN (begin + 1) * v.width ELSE begin * v.width,
                (packed_get(v.c, v.width, begin) + n) % (2^v.width))

\* packed_view::increment(begin, end, n)
packed_increment(v, begin, end, n) ==
    increment_chunks(v, begin * v.width, end * v.width, (end - begin) * v.width,
                     ((end - begin) * v.width) % ((W \div v.width) * v.width),
                     n, "cant_overflow")

\* packed_view::decrement(begin, end, n): the increment by - n, a word
packed_decrement(v, begin, end, n) ==
    increment_chunks(v, begin * v.width, end * v.width, (end - begin) * v.width,
                     ((end - begin) * v.width) % ((W \div v.width) * v.width),
                     (2^W - n) % (2^W), "may_overflow")

\* A view of Words words is made over a container of one of a few contents,
\* as a bitview or as a packed_view of fields of 3 or of 4 bits; the bitvector
\* is not used.
ViewInit ==
    /\ par = bt_params(64, 21)
    /\ bv = construct(par)
    /\ hist = << >>
    /\ last = [op |-> "none", valid |-> TRUE, res |-> "ok"]
    /\ pv \in { [c |-> c, width |-> w, st |-> "ok"] :
                c \in { [i \in 0..(Words - 1) |-> 0],
                        [i \in 0..(Words - 1) |-> 2^W - 1] }
                      \cup { [i \in 0..(Words - 1) |-> (k * (2 * i + 1)) % (2^W)] :
                               k \in {77, 85, 170, 180} },
                w \in {0, 3, 4} }
    /\ call = no_op

\* set(begin, end, value) on a bitview, then get(begin, end), for every range
\* of at most W bits and a few values that fit
SetGet ==
    /\ call.op = "none" /\ pv.width = 0
    /\ \E begin \in 0..view_size :
      \E end \in begin..Min(begin + W, view_size) :
        \E value \in { 0, 2^(end - begin) - 1, 2^(end - begin) \div 2,
                       2^(end - begin) \div 3, 1 % (2^(end - begin)),
                       (2 * (2^(end - begin) \div 3)) % (2^(end - begin)) } :
            /\ pv' = bitview_set(pv, begin, end, value)
            /\ call' = [no_op EXCEPT !.op = "set", !.a = begin, !.b = end,
                                     !.v = value, !.before = pv.c,
                                     !.got = bitview_get(pv'.c, begin, end)]
            /\ UNCHANGED <<par, bv, hist, last>>

\* copy(src, src_begin, src_end, dest_begin, dest_end) on a bitview, src being
\* the view itself or another view of the same size; the destination is as
\* long as the source, half as long, or ends where the view ends.  A call that
\* touches a word past the container either goes on or ends the program.
Copy ==
    /\ call.op = "none" /\ pv.width = 0
    /\ \E same \in BOOLEAN, src_begin \in 0..view_size, dest_begin \in 0..view_size :
      \E src_end \in src_begin..view_size :
        \E dest_end \in { e \in { dest_begin + (src_end - src_begin),
                                  dest_begin + (src_end - src_begin) \div 2,
                                  view_size } : e <= view_size } :
          \E src \in { IF same THEN pv.c
                       ELSE [i \in 0..(Words - 1) |-> 2^W - 1 - pv.c[Words - 1 - i]] } :
            \E o \in { "ok", "Undefined" } :
                    /\ pv' = IF bitview_copy(pv, src, same, src_begin, src_end,
                                         dest_begin, dest_end).st = "past the end"
                         THEN IF o = "ok"
                              THEN [bitview_copy(pv, src, same, src_begin, src_end,
                                                 dest_begin, dest_end)
                                        EXCEPT !.st = "ok"]
                              ELSE [pv EXCEPT !.st = "Undefined"]
                         ELSE bitview_copy(pv, src, same, src_begin, src_end,
                                           dest_begin, dest_end)
                /\ call' = [no_op EXCEPT !.op = "copy", !.a = src_begin,
                                         !.b = src_end, !.c = dest_begin,
                                         !.d = dest_end,
                                         !.v = IF same THEN 1 ELSE 0,
                                         !.before = pv.c, !.src = src]
                /\ UNCHANGED <<par, bv, hist, last>>

\* insert(index, bit) on a bitview, index below its size
InsertBit ==
    /\ call.op = "none" /\ pv.width = 0
    /\ \E index \in 0..(view_size - 1), b \in {0, 1} :
            /\ pv' = [pv EXCEPT !.c = bitview_insert(@, index, b)]
            /\ call' = [no_op EXCEPT !.op = "insert", !.a = index, !.v = b,
                                     !.before = pv.c]
            /\ UNCHANGED <<par, bv, hist, last>>

\* insert(begin, end, value) on a bitview, for every range of 1 to W bits and
\* the values of all zeros and all ones.  The copy inside it ends where the
\* view ends, and the call goes on or ends the program as for Copy.
InsertRange ==
    /\ call.op = "none" /\ pv.width = 0
    /\ \E begin \in 0..(view_size - 1) :
      \E end \in (begin + 1)..Min(begin + W, view_size) :
        \E value \in {0, 2^(end - begin) - 1}, o \in {"ok", "Undefined"} :
            /\ pv' = IF bitview_copy(pv, pv.c, TRUE, begin, view_size,
                                     end, view_size).st = "past the end"
                     THEN IF o = "ok"
                          THEN bitview_insert_range(
                                  [bitview_copy(pv, pv.c, TRUE, begin, view_size,
                                                end, view_size) EXCEPT !.st = "ok"],
                                  begin, end, value)
                          ELSE [pv EXCEPT !.st = "Undefined"]
                     ELSE bitview_insert_range(
                             bitview_copy(pv, pv.c, TRUE, begin, view_size,
                                          end, view_size),
                             begin, end, value)
            /\ call' = [no_op EXCEPT !.op = "insert_range", !.a = begin,
                                     !.b = end, !.v = value, !.before = pv.c]
            /\ UNCHANGED <<par, bv, hist, last>>

\* set(begin, end, pattern) on a packed_view: a value of one field assigned to
\* the fields [begin, end)
Broadcast ==
    /\ call.op = "none" /\ pv.width > 0
    /\ \E begin \in 0..(view_size \div pv.width) :
        \E end \in begin..(view_size \div pv.width) :
          \E pattern \in { 0, 1, 5 % (2^pv.width), 2^(pv.width - 1),
                           2^pv.width - 1 } :
            /\ pv' = packed_set(pv, begin, end, pattern)
            /\ call' = [no_op EXCEPT !.op = "broadcast", !.a = begin, !.b = end,
                                     !.v = pattern, !.before = pv.c]
            /\ UNCHANGED <<par, bv, hist, last>>

\* increment(begin, end, n) on a packed_view, n a value of one field
Increment ==
    /\ call.op = "none" /\ pv.width > 0
    /\ \E begin \in 0..(view_size \div pv.width) :
        \E end \in begin..(view_size \div pv.width) :
          \E n \in 0..(2^pv.width - 1) :
            /\ pv' = packed_increment(pv, begin, end, n)
            /\ call' = [no_op EXCEPT !.op = "increment", !.a = begin, !.b = end,
                                     !.v = n, !.before = pv.c]
            /\ UNCHANGED <<par, bv, hist, last>>

\* decrement(begin, end, n) on a packed_view, as the first call or after the
\* increment of the same fields by the same n (d = 1, src the container before
\* that increment)
Decrement ==
    /\ call.op \in {"none", "increment"} /\ pv.width > 0 /\ pv.st = "ok"
    /\ \E begin \in 0..(view_size \div pv.width) :
        \E end \in begin..(view_size \div pv.width) :
          \E n \in 0..(2^pv.width - 1) :
            /\ call.op = "increment"
                  => (begin = call.a /\ end = call.b /\ n = call.v)
            /\ pv' = packed_decrement(pv, begin, end, n)
            /\ call' = [no_op EXCEPT !.op = "decrement", !.a = begin, !.b = end,
                                     !.v = n, !.before = pv.c,
                                     !.d = IF call.op = "increment" THEN 1 ELSE 0,
                                     !.src = call.before]
            /\ UNCHANGED <<par, bv, hist, last>>

ViewNext ==
    SetGet \/ Copy \/ InsertBit \/ InsertRange \/ Broadcast \/ Increment \/ Decrement

ViewSpec == ViewInit /\ [][ViewNext]_vars

(***************************************************************************)
(* The tree as it is stored: child k of node t read from the fields of     *)
(* node t, fields t.index * degree + k of sizes and ranks and field        *)
(* t.index * (degree + 1) + k of pointers.                                 *)
(***************************************************************************)
stored_pointer(s, t, k) == s.pointers[pointers_base(t) + k]

\* the cumulative size and rank up to child k, the total of t for the last
stored_size(s, t, k) ==
    IF k < 0 THEN 0 ELSE IF k = degree THEN t.size ELSE s.sizes[keys_base(t) + k]

stored_rank(s, t, k) ==
    IF k < 0 THEN 0 ELSE IF k = degree THEN t.rank ELSE s.ranks[keys_base(t) + k]

stored_child(s, t, k) ==
    subtree_ref(stored_pointer(s, t, k), t.height - 1,
                stored_size(s, t, k) - stored_size(s, t, k - 1),
                stored_rank(s, t, k) - stored_rank(s, t, k - 1))

\* the 1 bits of the leaves below t, and below the children 0 .. k of t
RECURSIVE ones_below(_, _)
RECURSIVE ones_upto(_, _, _)
ones_below(s, t) ==
    IF is_leaf(t) THEN popcount(s.leaves[t.index]) ELSE ones_upto(s, t, degree)

ones_upto(s, t, k) ==
    IF k < 0 THEN 0
    ELSE ones_upto(s, t, k - 1)
         + ( IF stored_pointer(s, t, k) = 0 THEN 0
             ELSE ones_below(s, stored_child(s, t, k)) )

\* the bits of the leaves below t, and below the children 0 .. k of t; the
\* length of a leaf is the one its parent keeps
RECURSIVE bits_below(_, _)
RECURSIVE bits_upto(_, _, _)
bits_below(s, t) ==
    IF is_leaf(t) THEN t.size ELSE bits_upto(s, t, degree)

bits_upto(s, t, k) ==
    IF k < 0 THEN 0
    ELSE bits_upto(s, t, k - 1)
         + ( IF stored_pointer(s, t, k) = 0 THEN 0
             ELSE bits_below(s, stored_child(s, t, k)) )

\* every size counter of t and of the nodes below t is the number of bits of
\* the children up to it, and every rank counter the number of their 1 bits
RECURSIVE counters_hold(_, _)
counters_hold(s, t) ==
    /\ \A k \in 0..(degree - 1) :
          /\ s.sizes[keys_base(t) + k] = bits_upto(s, t, k)
          /\ s.ranks[keys_base(t) + k] = ones_upto(s, t, k)
    /\ \A k \in 0..degree :
          (t.height > 1 /\ stored_pointer(s, t, k) # 0)
              => counters_hold(s, stored_child(s, t, k))

\* every leaf below t holds at least n bits
RECURSIVE leaves_hold(_, _, _)
leaves_hold(s, t, n) ==
    IF is_leaf(t) THEN ~ULt(t.size, n)
    ELSE \A k \in 0..degree :
            stored_pointer(s, t, k) # 0 => leaves_hold(s, stored_child(s, t, k), n)

\* the least number of bits of a leaf: b(leaf_bits - b)/(b + 1)
leaf_floor ==
    (leaves_buffer * (leaf_bits - leaves_buffer)) \div (leaves_buffer + 1)

\* what access reads at 0 .. size - 1
Contents(s) == [j \in 1..s.size |-> access(s, root(s), j - 1)]

\* the number of true bits of a sequence
Ones(seq) == Cardinality({k \in DOMAIN seq : seq[k]})

\* the step was an insert that returned
Completed == last.op = "insert" /\ last.res = "ok"

\* every leaf below t holds at most leaf_bits bits
RECURSIVE leaves_fit(_, _)
leaves_fit(s, t) ==
    IF is_leaf(t) THEN ~ULt(leaf_bits, t.size)
    ELSE \A k \in 0..degree :
            stored_pointer(s, t, k) # 0 => leaves_fit(s, stored_child(s, t, k))

\* every node from t down has at most degree + 1 children
RECURSIVE nodes_fit(_, _)
nodes_fit(s, t) ==
    /\ nchildren(s, t) <= degree + 1
    /\ \A k \in 0..degree :
          (t.height > 1 /\ stored_pointer(s, t, k) # 0)
              => nodes_fit(s, stored_child(s, t, k))

\* insert in a node t of height 1, after step 1: the state in which the leaf
\* for the bit is searched again
before_insert_bit(s, t, chld) ==
    IF ~child_ok(s, t, chld) THEN abort(s, "child")
    ELSE IF is_full(s, child(s, t, chld)) THEN rebalance_leaves(s, t, chld)
    ELSE s

\* the leaf at p = <<child, index>> holds fewer than leaf_bits bits
has_room(s, t, p) ==
    (s.st = "ok" /\ child_ok(s, t, p[1])) => ULt(child(s, t, p[1]).size, leaf_bits)

\* the leaf that insert(index, bit) puts the bit into has room for it
leaf_has_room(s, t, index) ==
    has_room(before_insert_bit(s, t, find_insert_point(s, t, index)[1]), t,
             find_insert_point(
                before_insert_bit(s, t, find_insert_point(s, t, index)[1]),
                t, index))

(***************************************************************************)
(* The properties.                                                         *)
(***************************************************************************)
\* C1: an insert into a vector of fewer bits than its capacity that returns
\* acts on what access reads as an insertion into a sequence: for some position
\* i and bit b, access(i) reads b afterwards, access(j) reads what it read
\* before for j < i, and access(j + 1) reads what access(j) read before for
\* j >= i.
C1_InsertIsSequenceInsertion ==
    [][ (bv.size < capacity /\ last'.op = "insert" /\ last'.res = "ok") =>
            \E i \in 0..bv.size, b \in {0, 1} :
                /\ hist' = InsertAt(hist, i, b = 1)
                /\ Contents(bv') = InsertAt(Contents(bv), i, outcome("ok", "", b))
      ]_vars

\* C2: size is the number of inserts that returned and rank the number of
\* true bits among them; an insert that failed is not among them, so it has
\* changed neither.
C2_SizeAndRankCountInserts ==
    bv.size = Len(hist) /\ bv.rank = Ones(hist)

\* C3: when the root is full, the state right after the promotion step reads
\* the same bit at every position as the state before it.
C3_PromotionKeepsContents ==
    (Running /\ is_full(bv, root(bv)))
        => Contents(promote(bv, root(bv))) = Contents(bv)

\* C4: access(i) with i >= size and insert(i, bit) with i > size end with
\* IndexOutOfRange and leave every part of the vector as it was.
C4_OutOfRangeIsRejected ==
    [][ ~last'.valid => (last'.res = "IndexOutOfRange" /\ bv' = bv) ]_vars

\* C4: an access past the end was rejected on a vector of several leaves
C4_Witness ==
    /\ last.op = "access"
    /\ ~last.valid
    /\ last.res = "IndexOutOfRange"
    /\ bv.free_leaf > 2

\* C5: while the vector holds fewer bits than its capacity, no insert calls
\* alloc_leaf or alloc_node with the arena exhausted.
C5_ArenaLastsUpToCapacity ==
    bv.size < capacity => bv.why \notin {"alloc_leaf", "alloc_node"}

\* C6: an insert that needs a slot from an exhausted arena ends with
\* CapacityExceeded.
C6_ExhaustionIsCapacityExceeded ==
    (last.op = "insert" /\ bv.why \in {"alloc_leaf", "alloc_node"})
        => last.res = "CapacityExceeded"

\* C7: an insert that fails on an exhausted arena leaves size, rank, height,
\* the counters, the pointers, the leaves, free_node and free_leaf as they
\* were before the call.
C7_FailedInsertChangesNothing ==
    [][ (last'.op = "insert" /\ bv'.why \in {"alloc_leaf", "alloc_node"})
            => [bv' EXCEPT !.st = "ok", !.why = ""] = bv ]_vars

\* C8: after every insert that returned, every size counter of every node is
\* the number of bits below the children up to it and every rank counter the
\* number of their 1 bits, and the size and the rank of the vector are the
\* number of bits and of 1 bits of all leaves.
C8_CountersAreCumulative ==
    (Running /\ Completed)
        => /\ counters_hold(bv, root(bv))
           /\ bv.size = bits_below(bv, root(bv))
           /\ bv.rank = ones_below(bv, root(bv))

\* C9: after every insert that returned, every leaf holds at least
\* floor(b(leaf_bits - b)/(b + 1)) bits.
C9_LeafFloor ==
    (Running /\ Completed) => leaves_hold(bv, root(bv), leaf_floor)

\* C11: in every state in which the vector can be used every node has at most
\* degree + 1 children and every leaf holds at most leaf_bits bits, and the
\* leaf that an insert at a valid position puts its bit into holds fewer than
\* leaf_bits bits at that moment.
C11_DegreeCap ==
    Running =>
        /\ nodes_fit(bv, root(bv))
        /\ leaves_fit(bv, root(bv))
        /\ bv.height = 1 =>
              \A i \in Positions(bv.size) : leaf_has_room(bv, root(bv), i)

\* C12: after set(b, e, v) on a bitview, with 0 <= b <= e <= size, e - b <= W
\* and v fitting in e - b bits, get(b, e) returns v, also when the range
\* straddles two words or is exactly W bits long; get of an empty range is 0.
C12_SetGetRoundTrip ==
    call.op = "set" =>
        /\ pv.st = "ok"
        /\ call.got = (IF call.a < call.b THEN call.v ELSE 0)

\* a set of exactly W bits over two words has been read back
C12_Witness ==
    /\ call.op = "set"
    /\ call.b - call.a = W
    /\ call.a % W # 0
    /\ call.v = 2^W \div 3
    /\ call.got = call.v

\* C13: set(b, e, v) on a bitview leaves every bit outside [b, e) as it was,
\* and a set of an empty range changes nothing.
C13_SetKeepsTheRest ==
    call.op = "set" =>
        \A i \in 0..(view_size - 1) :
            (i < call.a \/ i >= call.b)
                => bitview_bit(pv.c, i) = bitview_bit(call.before, i)

\* five zero bits have been set over the first two words of a container of ones
C13_Witness ==
    /\ call.op = "set"
    /\ call.a = W - 2 /\ call.b = W + 3 /\ call.v = 0
    /\ call.before[0] = 2^W - 1 /\ call.before[1] = 2^W - 1
    /\ pv.c[0] = 2^(W - 2) - 1
    /\ pv.c[1] = 2^W - 8

\* C14: copy(src, sb, se, db, de) on a bitview, with n = min(se - sb, de - db),
\* ends with the bits [db, db + n) of the destination equal to the bits
\* [sb, sb + n) the source had before, and every other bit as it was, also when
\* src is the view itself and the ranges overlap in either direction or span
\* several words.
C14_CopyMovesTheRange ==
    call.op = "copy" =>
        /\ pv.st = "ok"
        /\ \A i \in 0..(view_size - 1) :
              bitview_bit(pv.c, i) =
                  IF i >= call.c /\ i < call.c + Min(call.b - call.a, call.d - call.c)
                  THEN bitview_bit(call.src, call.a + i - call.c)
                  ELSE bitview_bit(call.before, i)

\* C15: insert(i, bit) on a bitview, i below its size, moves every bit from
\* position i on up by one, across the words, puts bit at position i, leaves
\* the bits below i as they were and drops the highest bit of the view.
C15_InsertShiftsUp ==
    call.op = "insert" =>
        \A i \in 0..(view_size - 1) :
            bitview_bit(pv.c, i) =
                IF i < call.a THEN bitview_bit(call.before, i)
                ELSE IF i = call.a THEN call.v
                ELSE bitview_bit(call.before, i - 1)

\* an insert into the first word has carried a one into the second word, and
\* the highest bit of the view, a one, is gone
C15_Witness ==
    /\ call.op = "insert"
    /\ call.a < W - 1
    /\ bitview_bit(call.before, W - 1) = 1
    /\ bitview_bit(call.before, W) = 0
    /\ bitview_bit(pv.c, W) = 1
    /\ bitview_bit(call.before, view_size - 1) = 1
    /\ bitview_bit(call.before, view_size - 2) = 0
    /\ bitview_bit(pv.c, view_size - 1) = 0

\* C16: after the assignment of a value v that fits in width bits to the
\* fields [a, b) of a packed_view, get(k) = v for every k in [a, b), also when
\* the range is not aligned to a word or is longer than a word.
C16_BroadcastFillsTheRange ==
    call.op = "broadcast" =>
        /\ pv.st = "ok"
        /\ \A k \in call.a..(call.b - 1) : packed_get(pv.c, pv.width, k) = call.v

\* fields of 3 bits from the second to the last, over three words, hold 5
C16_Witness ==
    /\ call.op = "broadcast"
    /\ pv.width = 3 /\ call.a = 1 /\ call.b = view_size \div 3 /\ call.v = 5
    /\ call.before[0] = 0
    /\ packed_get(pv.c, 3, 0) = 0
    /\ packed_get(pv.c, 3, 2) = 5
    /\ packed_get(pv.c, 3, call.b - 1) = 5

\* C17: after increment(a, b, n) on a packed_view, when no field of [a, b)
\* overflows its width, every field of [a, b) holds its old value plus n and
\* every other field its old value.
C17_IncrementAddsToEachField ==
    ( /\ call.op = "increment"
      /\ \A k \in call.a..(call.b - 1) :
            packed_get(call.before, pv.width, k) + call.v < 2^pv.width )
    => /\ pv.st = "ok"
       /\ \A k \in 0..(view_size \div pv.width - 1) :
            packed_get(pv.c, pv.width, k) =
                packed_get(call.before, pv.width, k)
                    + (IF k >= call.a /\ k < call.b THEN call.v ELSE 0)

\* the fields of 3 bits from the second to the last, over three words and
\* unequal, have each grown by 1
C17_Witness ==
    /\ call.op = "increment" /\ pv.st = "ok"
    /\ pv.width = 3 /\ call.v = 1
    /\ call.a = 1 /\ call.b = view_size \div 3
    /\ packed_get(call.before, 3, 0) = 5
    /\ packed_get(call.before, 3, 1) = 1
    /\ packed_get(call.before, 3, 4) = 6
    /\ packed_get(pv.c, 3, 0) = 5
    /\ packed_get(pv.c, 3, 1) = 2
    /\ packed_get(pv.c, 3, 4) = 7

\* C18: decrement(a, b, n) on a packed_view subtracts n from every field of
\* [a, b) on its own, modulo 2^width: a field below n wraps within its width,
\* nothing is borrowed from the next field or from a field outside [a, b);
\* and when every field is at least n, decrement(a, b, n) after
\* increment(a, b, n) gives back the fields there were before the increment.
C18_DecrementIsPerField ==
    call.op = "decrement" =>
        /\ pv.st = "ok"
        /\ \A k \in 0..(view_size \div pv.width - 1) :
              packed_get(pv.c, pv.width, k) =
                  IF k >= call.a /\ k < call.b
                  THEN (packed_get(call.before, pv.width, k) + 2^pv.width - call.v)
                          % (2^pv.width)
                  ELSE packed_get(call.before, pv.width, k)
        /\ call.d = 1 =>
              \A k \in 0..(view_size \div pv.width - 1) :
                  packed_get(pv.c, pv.width, k) = packed_get(call.src, pv.width, k)

\* C19: over the size fields of a node, monotone non-decreasing and with the
\* flag bit zero, find(threshold) returns the smallest k with
\* field[k] > threshold, the number of fields when there is none, and this is
\* the child find_insert_point(index) returns and the value nchildren() adds
\* one to.
C19_FindIsFirstAbove ==
    LET field(k) == bv.sizes[keys_base(root(bv)) + k]
        first_above(th) ==
            CHOOSE k \in 0..degree :
                /\ k = degree \/ field(k) > th
                /\ \A j \in 0..(k - 1) : field(j) <= th
    IN  ( /\ Running
          /\ \A k \in 0..(degree - 1) :
                /\ field(k) < 2^(counter_width - 1)
                /\ k > 0 => field(k - 1) <= field(k) )
        => /\ \A th \in 0..(bv.size + 1) :
                /\ find_field(bv, root(bv), th) = first_above(th)
                /\ find_insert_point(bv, root(bv), th)[1] = first_above(th)
           /\ bv.size # 0 => nchildren(bv, root(bv)) = first_above(bv.size) + 1

\* C19, as the code has it: over such fields find(threshold) returns the
\* smallest k with field[k] >= threshold, that is the number of fields below
\* the threshold; find_insert_point(index) returns this child and nchildren()
\* is this value for the size of the node, plus one.
C19_FindIsFirstNotBelow ==
    LET field(k) == bv.sizes[keys_base(root(bv)) + k]
        first_not_below(th) ==
            CHOOSE k \in 0..degree :
                /\ k = degree \/ field(k) >= th
                /\ \A j \in 0..(k - 1) : field(j) < th
    IN  ( /\ Running
          /\ \A k \in 0..(degree - 1) :
                /\ field(k) < 2^(counter_width - 1)
                /\ k > 0 => field(k - 1) <= field(k) )
        => /\ \A th \in 0..(bv.size + 1) :
                /\ find_field(bv, root(bv), th) = first_not_below(th)
                /\ find_insert_point(bv, root(bv), th)[1] = first_not_below(th)
           /\ bv.size # 0 => nchildren(bv, root(bv)) = first_not_below(bv.size) + 1

\* two leaves under the root, the first of 3 bits: the search for 3 stops at
\* the first field, which equals it, and the search for 4 at the second
C19_Witness ==
    /\ Running
    /\ bv.sizes[keys_base(root(bv))] = 3
    /\ bv.sizes[keys_base(root(bv)) + 1] > 3
    /\ \A k \in 1..(degree - 1) :
          /\ bv.sizes[keys_base(root(bv)) + k] < 2^(counter_width - 1)
          /\ bv.sizes[keys_base(root(bv)) + k - 1] <= bv.sizes[keys_base(root(bv)) + k]
    /\ find_field(bv, root(bv), 3) = 0
    /\ find_field(bv, root(bv), 4) = 1
    /\ nchildren(bv, root(bv)) = 2

\* C21: height is 1 at the start and never decreases; an insert raises it by
\* exactly 1 when the root is full as the insert starts, in the promotion of
\* the root, and no other call and no other insert changes it; the root is not
\* full after the promotion, so that the insert started again from it does not
\* promote a second time.
C21_HeightGrowsByPromotion ==
    /\ bv.height = 1
    /\ [][ bv'.height = bv.height
                + (IF last'.op = "insert" /\ last'.valid /\ is_full(bv, root(bv))
                   THEN 1 ELSE 0) ]_vars
    /\ []( (Running /\ is_full(bv, root(bv)))
             => /\ promote(bv, root(bv)).st = "ok"
                /\ promote(bv, root(bv)).height = bv.height + 1
                /\ ~is_full(promote(bv, root(bv)), root(promote(bv, root(bv)))) )

\* an insert found the root full and made it the only child of a new root
C21_Witness ==
    /\ last.op = "insert" /\ last.valid
    /\ bv.height = 2
    /\ bv.free_node = 2
    /\ bv.pointers[0] = 1
    /\ nchildren(bv, root(bv)) = 1

\* C22: find_adjacent_children(t, child) returns a window [begin, end) of
\* child positions with begin <= child < end and end - begin the buffer size,
\* and no window of that width inside [0, degree + 1) that contains child has
\* more free slots, a null child counting as wholly free.
C22_WindowHasMostFreeSlots ==
    Running =>
        \A chld \in 0..degree :
            child_ok(bv, root(bv), chld) =>
                LET leaves == is_leaf(child(bv, root(bv), chld))
                    buffer == IF leaves THEN leaves_buffer ELSE nodes_buffer
                    w == find_adjacent_children(bv, root(bv), chld)
                IN  /\ w[1] <= chld /\ chld < w[2]
                    /\ w[2] - w[1] = buffer
                    /\ \A b \in 0..(degree + 1 - buffer) :
                          (b <= chld /\ chld < b + buffer)
                              => sum_free_slots(bv, root(bv), b, b + buffer, leaves)
                                    <= sum_free_slots(bv, root(bv), w[1], w[2], leaves)

\* C23: the third value find_adjacent_children(t, child) returns, for a full
\* child as insert passes it, is the number of slots in use in the window it
\* returns: the bits of its leaves, or the children of its nodes, a null child
\* having none.
C23_TotalIsWhatTheWindowHolds ==
    Running =>
        \A chld \in 0..degree :
            (child_ok(bv, root(bv), chld) /\ is_full(bv, child(bv, root(bv), chld))) =>
                LET leaves == is_leaf(child(bv, root(bv), chld))
                    max_count == IF leaves THEN leaf_bits ELSE degree + 1
                    w == find_adjacent_children(bv, root(bv), chld)
                IN  w[3] = max_count * (w[2] - w[1])
                             - sum_free_slots(bv, root(bv), w[1], w[2], leaves)

\* C24: an insert that returns adds a child slot to the node t it works in
\* only if the child the bit goes to is full and the window chosen around it
\* holds at least leaves_buffer * (leaf_bits - leaves_buffer) bits; the new
\* slot is the one just past the window and the children behind it move one
\* place up.  Otherwise every child outside the window stays where it was, the
\* children of the window keep their leaves, and t gains children only where
\* the window had a null slot.  No insert adds more than one slot beyond those.
C24_SplitOnlyWhenSaturated ==
    [][ (Running /\ last'.op = "insert" /\ last'.res = "ok") =>
          \E index \in 0..bv.size :
            LET t == root(bv)
                chld == find_insert_point(bv, t, index)[1]
                full == is_full(bv, child(bv, t, chld))
                w == IF full THEN find_adjacent_children(bv, t, chld)
                     ELSE <<chld, chld + 1, 0>>
                inside == w[1]..(w[2] - 1)
                held == leaf_bits * (w[2] - w[1])
                           - sum_free_slots(bv, t, w[1], w[2], TRUE)
                nulls == Cardinality({k \in inside : stored_pointer(bv, t, k) = 0})
                slots(x) == Cardinality({k \in 0..degree : stored_pointer(x, t, k) # 0})
                moved == \E k \in (0..degree) \ inside :
                            stored_pointer(bv', t, k) # stored_pointer(bv, t, k)
            IN  /\ \E b \in BOOLEAN : hist' = InsertAt(hist, index, b)
                /\ t.height = 1
                /\ moved =>
                      /\ full
                      /\ held >= leaves_buffer * (leaf_bits - leaves_buffer)
                      /\ w[2] <= degree
                      /\ stored_pointer(bv', t, w[2]) = bv.free_leaf
                      /\ \A k \in (w[2] + 1)..degree :
                            stored_pointer(bv', t, k) = stored_pointer(bv, t, k - 1)
                      /\ \A k \in 0..(w[1] - 1) :
                            stored_pointer(bv', t, k) = stored_pointer(bv, t, k)
                /\ \A k \in inside :
                      stored_pointer(bv, t, k) # 0
                          => stored_pointer(bv', t, k) = stored_pointer(bv, t, k)
                /\ ~full => slots(bv') = slots(bv)
                /\ slots(bv') <= slots(bv) + nulls + (IF moved THEN 1 ELSE 0) ]_vars

\* C25: redistribute_bits(t, begin, end, count), as insert calls it on a node
\* whose counters are right, returns with the leaves of the window holding
\* count \div (end - begin) bits each, the first count % (end - begin) of them
\* one more; the bits of the window read in child order are the ones they
\* were; the rank of every child of the window is the number of 1 bits of its
\* leaf; and the counters outside the window are the totals they were.
C25_RedistributeBitsKeepsTheBits ==
    (Running /\ bv.height = 1 /\ counters_hold(bv, root(bv))) =>
        \A chld \in 0..degree :
            LET t == root(bv)
                w == find_adjacent_children(bv, t, chld)
                split == w[3] >= leaves_buffer * (leaf_bits - leaves_buffer)
                a == IF split THEN insert_child(bv, t, w[2]) ELSE bv
                end == IF split THEN w[2] + 1 ELSE w[2]
                s == redistribute_bits(a, t, w[1], end, w[3])
                length(x, k) == stored_size(x, root(x), k) - stored_size(x, root(x), k - 1)
                set_bits(x, k) == stored_rank(x, root(x), k) - stored_rank(x, root(x), k - 1)
                word(x, k) == x.leaves[stored_pointer(x, root(x), k)]
                start(x, k) == stored_size(x, root(x), k - 1)
                                  - stored_size(x, root(x), w[1] - 1)
                bits(x) ==
                    [j \in 1..(stored_size(x, root(x), end - 1)
                                  - stored_size(x, root(x), w[1] - 1)) |->
                        LET k == CHOOSE c \in w[1]..(end - 1) :
                                    start(x, c) < j /\ j <= start(x, c) + length(x, c)
                        IN  (word(x, k) \div 2^(j - 1 - start(x, k))) % 2]
            IN  ( /\ child_ok(bv, t, chld)
                  /\ is_full(bv, child(bv, t, chld))
                  /\ a.st = "ok" ) =>
                    /\ s.st = "ok"
                    /\ \A k \in w[1]..(end - 1) :
                          /\ stored_pointer(s, t, k) # 0
                          /\ length(s, k) = w[3] \div (end - w[1])
                                + (IF k - w[1] < w[3] % (end - w[1]) THEN 1 ELSE 0)
                    /\ bits(s) = bits(a)
                    /\ \A k \in w[1]..(end - 1) : set_bits(s, k) = popcount(word(s, k))
                    /\ \A k \in (0..degree) \ (w[1]..(end - 1)) :
                          /\ stored_size(s, root(s), k) = stored_size(a, root(a), k)
                          /\ stored_rank(s, root(s), k) = stored_rank(a, root(a), k)
                          /\ stored_pointer(s, t, k) = stored_pointer(a, t, k)

\* C26: redistribute_keys(t, begin, end, count), as the insert that has just
\* promoted a full root calls it, returns with the (size, rank, pointer)
\* triples of the children of the window's nodes, read in order, the ones
\* they were; node k of the window holds count \div (end - begin) of them, the
\* first count % (end - begin) nodes one more; and the size and rank t keeps
\* for every node of the window are the sums over the triples of that node.
C26_RedistributeKeysKeepsTheKeys ==
    (Running /\ is_full(bv, root(bv)) /\ promote(bv, root(bv)).st = "ok") =>
        LET p == promote(bv, root(bv))
            t == root(p)
            w == find_adjacent_children(p, t, 0)
            split == w[3] \div (nodes_buffer + 1) >= nodes_buffer
            a == IF split THEN insert_child(p, t, w[2]) ELSE p
            end == IF split THEN w[2] + 1 ELSE w[2]
            s == redistribute_keys(a, t, w[1], end, w[3])
            node(x, k) == stored_child(x, root(x), k)
            held(x, k) ==
                IF stored_pointer(x, root(x), k) = 0 THEN {}
                ELSE {c \in 0..degree : stored_pointer(x, node(x, k), c) # 0}
            before(x, k) ==
                Cardinality({m \in (w[1]..(k - 1)) \X (0..degree) : m[2] \in held(x, m[1])})
            triple(x, n, c) ==
                << stored_size(x, n, c) - stored_size(x, n, c - 1),
                   stored_rank(x, n, c) - stored_rank(x, n, c - 1),
                   stored_pointer(x, n, c) >>
            triples(x) ==
                [j \in 1..before(x, end) |->
                    LET k == CHOOSE m \in w[1]..(end - 1) :
                                before(x, m) < j /\ j <= before(x, m + 1)
                    IN  triple(x, node(x, k), j - 1 - before(x, k))]
        IN  a.st = "ok" =>
                /\ s.st = "ok"
                /\ \A k \in w[1]..(end - 1) :
                      /\ held(s, k) = 0..(Cardinality(held(s, k)) - 1)
                      /\ Cardinality(held(s, k)) = w[3] \div (end - w[1])
                            + (IF k - w[1] < w[3] % (end - w[1]) THEN 1 ELSE 0)
                      /\ node(s, k).size = stored_size(s, node(s, k), Cardinality(held(s, k)) - 1)
                      /\ node(s, k).rank = stored_rank(s, node(s, k), Cardinality(held(s, k)) - 1)
                /\ triples(s) = triples(a)

\* C27: sizes(k), ranks(k) and pointers(k) of a node with index n read the
\* fields n * degree + k and n * (degree + 1) + k, those of the node itself,
\* which are the fields the range accessors address.  The node looked at is
\* the copy of a full root that a promotion has just made, whose index is 1.
C27_AccessorsStayInTheirNode ==
    (Running /\ is_full(bv, root(bv)) /\ promote(bv, root(bv)).st = "ok") =>
        LET p == promote(bv, root(bv))
            n == child(p, root(p), 0)
        IN  /\ n.index # 0
            /\ \A k \in 0..(degree - 1) :
                  /\ sizes_item(p, n, k) = p.sizes[keys_base(n) + k]
                  /\ ranks_item(p, n, k) = p.ranks[keys_base(n) + k]
            /\ \A k \in 0..degree :
                  pointers_item(p, n, k) = p.pointers[pointers_base(n) + k]

\* C28: in every state of a vector that holds no more bits than its capacity,
\* every size field and every rank field is below 2^(counter_width - 1), so
\* that its highest bit, the flag bit of find, is clear, also when the
\* capacity is a power of two and the vector is full; and no increment of the
\* counters has carried out of a field.
C28_FlagBitIsClear ==
    (Running /\ bv.size <= capacity) =>
        \A k \in DOMAIN bv.sizes :
            /\ bv.sizes[k] < 2^(counter_width - 1)
            /\ bv.ranks[k] < 2^(counter_width - 1)

\* The pointers of the root and, in a tree of height 2, of the nodes below it
\* that are not null lie from 1 up to, and not including, free_leaf when they
\* point to a leaf and free_node when they point to a node, and no two of
\* them point to the same leaf or the same node.
well_formed(x) ==
    LET held(n) == {k \in 0..degree : x.pointers[n * (degree + 1) + k] # 0}
        at(u) == x.pointers[u[1] * (degree + 1) + u[2]]
        distinct(slots) == \A u \in slots, v \in slots : at(u) = at(v) => u = v
        below(n) == {n} \X held(n)
        of_leaves == IF x.height = 1 THEN below(0)
                     ELSE UNION {below(at(u)) : u \in below(0)}
        of_nodes == IF x.height = 1 THEN {} ELSE below(0)
    IN  /\ x.height \in {1, 2}
        /\ \A u \in of_nodes : 1 <= at(u) /\ at(u) < x.free_node
        /\ \A u \in of_leaves : 1 <= at(u) /\ at(u) < x.free_leaf
        /\ distinct(of_nodes)
        /\ distinct(of_leaves)

C30_CopyStaysInsideTheContainer ==
    call.op \in {"copy", "insert_range"} => pv.st # "Undefined"

====
